---- MODULE Spec2Model ----
(***************************************************************************)
(* SecureReq: HTTPSRequest (HTTP/1.1) and HTTPS2Request (HTTP/2), the two  *)
(* entry points of src/sources/index.ts, and ConcatArrayBuffers.           *)
(*                                                                         *)
(* One behaviour is one call of one entry point: the async function runs   *)
(* its statements in order (pc), creates the request, and the transport    *)
(* then delivers events to the listeners the code registered.              *)
(*                                                                         *)
(* Text is a sequence of one-character strings, a byte buffer a sequence   *)
(* of integers, a JavaScript object a function from its own keys.          *)
(***************************************************************************)
EXTENDS Integers, Sequences, FiniteSets, TLC

\* ------------------------------------------------------------------ bounds

\* Most 'data' events the transport delivers for one response.
MaxChunks == 2

\* ------------------------------------------------------------ JS objects

EmptyObj == [k \in {} |-> TRUE]

HasKey(o, k) == k \in DOMAIN o

\* { ...a, ...b }: own keys of both, b's value where both have the key.
Spread(a, b) ==
  [k \in (DOMAIN a) \cup (DOMAIN b) |-> IF k \in DOMAIN b THEN b[k] ELSE a[k]]

Field(k, v) == [x \in {k} |-> v]

\* ---------------------------------------------------------------- strings

EndsWith(s, suffix) ==
  /\ Len(s) >= Len(suffix)
  /\ SubSeq(s, Len(s) - Len(suffix) + 1, Len(s)) = suffix

StartsWith(s, prefix) ==
  /\ Len(s) >= Len(prefix)
  /\ SubSeq(s, 1, Len(prefix)) = prefix

\* String.prototype.toLowerCase, character by character, on the letters the
\* header names of the model are written with.
LowerChar(c) ==
  CASE c = "A" -> "a"
    [] c = "M" -> "m"
    [] c = "U" -> "u"
    [] c = "X" -> "x"
    [] OTHER   -> c

LowerCaseText(text) == [ i \in 1..Len(text) |-> LowerChar(text[i]) ]

DotJson == <<".", "j", "s", "o", "n">>
DotTxt  == <<".", "t", "x", "t">>

\* Array.prototype.join(':')
RECURSIVE Join(_)
Join(arr) ==
  IF arr = <<>> THEN <<>>
  ELSE IF Len(arr) = 1 THEN <<arr[1]>>
  ELSE <<arr[1], ":">> \o Join(Tail(arr))

\* String.prototype.toLowerCase on the cipher names of the model.
ToLowerCase(name) ==
  CASE name = "TLS_AES_256_GCM_SHA384"       -> "tls_aes_256_gcm_sha384"
    [] name = "TLS_CHACHA20_POLY1305_SHA256" -> "tls_chacha20_poly1305_sha256"
    [] name = "TLS_AES_128_GCM_SHA256"       -> "tls_aes_128_gcm_sha256"
    [] name = "BOGUS"                        -> "bogus"
    [] OTHER                                 -> name

\* TLS.getCiphers(): the platform's cipher names, in lower case.
PlatformCiphers ==
  { "tls_aes_256_gcm_sha384", "tls_chacha20_poly1305_sha256",
    "tls_aes_128_gcm_sha256" }

\* ------------------------------------------------------------- defaults

DefaultTLS ==
  [ IsHTTPSEnforced |-> TRUE,
    MinTLSVersion   |-> "TLSv1.3",
    MaxTLSVersion   |-> "TLSv1.3",
    Ciphers         |-> <<"TLS_AES_256_GCM_SHA384", "TLS_CHACHA20_POLY1305_SHA256">>,
    KeyExchanges    |-> <<"X25519MLKEM768", "X25519">> ]

\* An object whose key order matters (a header map) is the sequence of its
\* entries, in insertion order.
UserAgent == <<"U", "s", "e", "r", "-", "A", "g", "e", "n", "t">>

DefaultHeaders == << [ name |-> UserAgent, value |-> "node" ] >>

DefaultOptions ==
  [ TLS |-> DefaultTLS, HttpMethod |-> "GET", HttpHeaders |-> DefaultHeaders ]

\* --------------------------------------------------------------- inputs

EntryPoints == { "HTTPSRequest", "HTTPS2Request" }

\* The Url argument: a URL instance (protocol, pathname, search), or a value
\* that is not one.
Root     == <<"/">>
DataJson == <<"/", "a", ".", "j", "s", "o", "n">>
PageTxt  == <<"/", "a", ".", "t", "x", "t">>

NoSearch   == <<>>
FormatJson == <<"?", "f", "o", "r", "m", "a", "t", "=", "j", "s", "o", "n">>
FileJson   == <<"?", "f", "=", "a", ".", "j", "s", "o", "n">>

Locations ==
  { <<Root, NoSearch>>, <<Root, FormatJson>>, <<Root, FileJson>>,
    <<DataJson, FormatJson>>, <<PageTxt, NoSearch>> }

Urls ==
  { [ isURL |-> TRUE, protocol |-> p, host |-> "example.test",
      pathname |-> l[1], search |-> l[2] ] :
      p \in {"https:", "http:"}, l \in Locations }
  \cup
  { [ isURL |-> FALSE, protocol |-> "", host |-> "", pathname |-> <<>>, search |-> <<>> ] }

\* Options.TLS as the caller may write it.
TLSObjects ==
  { EmptyObj,
    Field("IsHTTPSEnforced", FALSE),
    [ IsHTTPSEnforced |-> TRUE, MinTLSVersion |-> "TLSv1.2" ],
    Field("Ciphers", <<"TLS_AES_128_GCM_SHA256">>),
    [ IsHTTPSEnforced |-> TRUE, Ciphers |-> <<"BOGUS">> ],
    [ IsHTTPSEnforced |-> TRUE, MinTLSVersion |-> "TLSv1.1" ],
    [ IsHTTPSEnforced |-> TRUE,
      MinTLSVersion   |-> "TLSv1.3",
      MaxTLSVersion   |-> "TLSv1.2",
      Ciphers         |-> <<"TLS_AES_256_GCM_SHA384">>,
      KeyExchanges    |-> <<"X25519">> ] }

\* Options.Payload: a string (its code units), an ArrayBuffer or a Uint8Array.
Payloads ==
  { [ type |-> "string",      data |-> <<>> ],
    [ type |-> "string",      data |-> <<120>> ],
    [ type |-> "ArrayBuffer", data |-> <<>> ],
    [ type |-> "Uint8Array",  data |-> <<120>> ] }

Methods == { "GET", "POST", "DELETE", "HEAD" }

ExpectedAsKeys == { "JSON", "String", "ArrayBuffer" }

\* Options.HttpHeaders as the caller may write it: one header, two names
\* that differ only in case, a name that begins with ':'.
XA       == <<"X", "-", "A">>
XaLower  == <<"x", "-", "a">>
ColonMethod == <<":", "M", "e", "t", "h", "o", "d">>

HeaderMaps ==
  { << [ name |-> XA, value |-> "1" ] >>,
    << [ name |-> XA, value |-> "1" ], [ name |-> XaLower, value |-> "2" ] >>,
    << [ name |-> ColonMethod, value |-> "DELETE" ] >> }

Optional(key, values) == { EmptyObj } \cup { Field(key, v) : v \in values }

\* Every Options value of the model; `undefined` is the empty object
\* (the code reads Options only as `Options ?? {}` and `Options?.ExpectedAs`).
\* The code reads TLS, HttpMethod and Payload together (validation and
\* dispatch), ExpectedAs with the path only, HttpHeaders with the method only.
OptionsValues ==
  { Spread(t, Spread(m, p)) :
      t \in Optional("TLS", TLSObjects),
      m \in Optional("HttpMethod", Methods),
      p \in Optional("Payload", Payloads) }
  \cup
  { Field("ExpectedAs", e) : e \in ExpectedAsKeys }
  \cup
  { Spread(m, Field("HttpHeaders", h)) :
      m \in Optional("HttpMethod", Methods), h \in HeaderMaps }

\* ---------------------------------------------------------------- state

VARIABLES
  entry,          \* the entry point called
  Url,            \* its Url argument
  Options,        \* its Options argument
  pc,             \* the statement the async function is at
  MergedOptions,  \* const MergedOptions
  ExpectedAs,     \* const ExpectedAs ("" until computed)
  promise,        \* the promise the call returned: state, rejection reason
  envelope,       \* the value the promise was resolved with: <<>> or <<v>>
  opened,         \* HTTPS.request / HTTP2.connect calls made so far
  handshake,      \* TLS parameters handed to them: <<>> or <<params>>
  written,        \* the arguments of the write() calls on the request
  endCalls,       \* end() calls on the request
  sentHeaders,    \* the headers handed to HTTPS.request / session.request
  stream,         \* the response stream as the transport drives it
  session,        \* the HTTP/2 session as the transport drives it
  closeCalls,     \* HTTP2Session.close() calls
  Chunks,         \* const Chunks: ArrayBuffer[]
  delivered,      \* the bytes of each 'data' event, as the transport sent them
  BodyBuffer,     \* const BodyBuffer: <<>> or <<buffer>>
  StatusCode,     \* let StatusCode (Res.statusCode ?? 0 in HTTPSRequest)
  ResponseHeaders,\* let ResponseHeaders (Res.headers in HTTPSRequest)
  received,       \* what the transport reported with the response headers: <<>> or <<Headers>>
  failure,        \* the stage at which the transport failed ("none" if not)
  cause,          \* the error the transport failed with
  uncaught        \* exceptions thrown out of an event listener

vars ==
  << entry, Url, Options, pc, MergedOptions, ExpectedAs, promise, envelope,
     opened, handshake, written, endCalls, sentHeaders, stream, session,
     closeCalls, Chunks, delivered, BodyBuffer, StatusCode, ResponseHeaders,
     received, failure, cause, uncaught >>

inputs    == << entry, Url, Options >>
request   == << opened, handshake, written, endCalls, sentHeaders >>
response  == << StatusCode, ResponseHeaders, received >>
transport == << stream, session, closeCalls, Chunks, delivered, BodyBuffer,
                StatusCode, ResponseHeaders, received, failure, cause, uncaught >>

Pending == [ state |-> "pending", reason |-> "" ]

Rejected(reason) == [ state |-> "rejected", reason |-> reason ]

Fulfilled == [ state |-> "fulfilled", reason |-> "" ]

\* A promise that every call of Resolve / Reject settles anew.
Settle_LastWins(p, outcome) == outcome

\* Resolve / Reject of a promise: only the first call settles it.
Settle(p, outcome) == IF p.state = "pending" THEN outcome ELSE p

Init ==
  /\ entry \in EntryPoints
  /\ Url \in Urls
  /\ Options \in OptionsValues
  /\ pc = "call"
  /\ MergedOptions = EmptyObj
  /\ ExpectedAs = ""
  /\ promise = Pending
  /\ envelope = <<>>
  /\ opened = 0
  /\ handshake = <<>>
  /\ written = <<>>
  /\ endCalls = 0
  /\ sentHeaders = <<>>
  /\ stream = "none"
  /\ session = "none"
  /\ closeCalls = 0
  /\ Chunks = <<>>
  /\ delivered = <<>>
  /\ BodyBuffer = <<>>
  /\ StatusCode = 0
  /\ ResponseHeaders = EmptyObj
  /\ received = <<>>
  /\ failure = "none"
  /\ cause = ""
  /\ uncaught = <<>>

\* A throw in the body of the async function rejects the returned promise.
Throw(reason) ==
  /\ promise' = Rejected(reason)
  /\ pc' = "done"


\* ----------------------------------------------------------- validation

\* The messages of the errors the function throws.
UrlTypeError      == "TypeError: Url must be an instance of URL"
SchemaError       == "ZodError"
SchemeNotAllowed  == "HTTPS is enforced, but the URL protocol is not HTTPS"
PayloadNotAllowed == "Request payload is only supported for GET, POST, PUT, PATCH, and OPTIONS methods"

TLSKeys == { "IsHTTPSEnforced", "MinTLSVersion", "MaxTLSVersion", "Ciphers", "KeyExchanges" }

OptionKeys == { "TLS", "HttpHeaders", "HttpMethod", "Payload", "ExpectedAs" }

\* Zod.string().refine(Cipher => TLS.getCiphers().map(C => C.toLowerCase())
\*   .includes(Cipher.toLowerCase()))
CipherSupported(Cipher) ==
  ToLowerCase(Cipher) \in { ToLowerCase(C) : C \in PlatformCiphers }

\* The Zod.strictObject for Options.TLS.
TLSSchemaAccepts(t) ==
  /\ DOMAIN t \subseteq TLSKeys
  /\ HasKey(t, "IsHTTPSEnforced") => t.IsHTTPSEnforced \in BOOLEAN
  /\ HasKey(t, "MinTLSVersion") => t.MinTLSVersion \in {"TLSv1.2", "TLSv1.3"}
  /\ HasKey(t, "MaxTLSVersion") => t.MaxTLSVersion \in {"TLSv1.2", "TLSv1.3"}
  /\ HasKey(t, "Ciphers") =>
       \A i \in DOMAIN t.Ciphers : CipherSupported(t.Ciphers[i])

\* The Zod.strictObject the code parses `Options ?? {}` with.
SchemaAccepts(o) ==
  /\ DOMAIN o \subseteq OptionKeys
  /\ HasKey(o, "TLS") => TLSSchemaAccepts(o.TLS)
  /\ HasKey(o, "HttpMethod") =>
       o.HttpMethod \in {"GET", "POST", "PUT", "DELETE", "PATCH", "HEAD", "OPTIONS"}
  /\ HasKey(o, "Payload") =>
       o.Payload.type \in {"string", "ArrayBuffer", "Uint8Array"}
  /\ HasKey(o, "ExpectedAs") => o.ExpectedAs \in {"JSON", "String", "ArrayBuffer"}

\* M.TLS?.f, as <<>> (undefined) or <<value>>.
TLSField(M, f) ==
  IF HasKey(M, "TLS") /\ HasKey(M.TLS, f) THEN <<M.TLS[f]>> ELSE <<>>

\* The scheme test with the comparison the wrong way round.
SchemeViolation_Inverted(M, U) ==
  /\ TLSField(M, "IsHTTPSEnforced") = <<TRUE>>
  /\ U.protocol = "https:"

\* MergedOptions.TLS?.IsHTTPSEnforced && Url.protocol !== 'https:'
SchemeViolation(M, U) ==
  /\ TLSField(M, "IsHTTPSEnforced") = <<TRUE>>
  /\ U.protocol # "https:"

\* Truthiness of MergedOptions.Payload: undefined and '' are falsy, an
\* ArrayBuffer or Uint8Array of any length is truthy.
PayloadTruthy(M) ==
  /\ HasKey(M, "Payload")
  /\ ~(M.Payload.type = "string" /\ M.Payload.data = <<>>)

\* MergedOptions.HttpMethod ?? 'GET'
MethodOrGet(M) == IF HasKey(M, "HttpMethod") THEN M.HttpMethod ELSE "GET"

PayloadMethods == {"GET", "POST", "PUT", "PATCH", "OPTIONS"}

\* The payload test with HEAD left in the list of methods that take a body.
PayloadViolation_HeadAllowed(M) ==
  /\ PayloadTruthy(M)
  /\ MethodOrGet(M) \notin (PayloadMethods \cup {"HEAD"})

\* MergedOptions.Payload && ![...].includes(MergedOptions.HttpMethod ?? 'GET')
PayloadViolation(M) ==
  /\ PayloadTruthy(M)
  /\ MethodOrGet(M) \notin PayloadMethods

\* The inference applied to path and query together.
InferExpectedAs_WithSearch(O, U) ==
  IF HasKey(O, "ExpectedAs") THEN O.ExpectedAs
  ELSE IF EndsWith(U.pathname \o U.search, DotJson) THEN "JSON"
  ELSE IF EndsWith(U.pathname \o U.search, DotTxt) THEN "String"
  ELSE "ArrayBuffer"

\* Options?.ExpectedAs ?? (pathname.endsWith('.json') ? 'JSON'
\*   : pathname.endsWith('.txt') ? 'String' : 'ArrayBuffer')
InferExpectedAs(O, U) ==
  IF HasKey(O, "ExpectedAs") THEN O.ExpectedAs
  ELSE IF EndsWith(U.pathname, DotJson) THEN "JSON"
  ELSE IF EndsWith(U.pathname, DotTxt) THEN "String"
  ELSE "ArrayBuffer"

\* -------------------------------------------- the async function's body

\* The entry of the function with the options parsed ahead of the URL check.
Call_SchemaFirst ==
  /\ pc = "call"
  /\ MergedOptions' = Spread(DefaultOptions, Options)
  /\ IF ~SchemaAccepts(Options) THEN Throw(SchemaError)
     ELSE IF Url.isURL THEN pc' = "zod" /\ UNCHANGED promise
     ELSE Throw(UrlTypeError)
  /\ UNCHANGED << inputs, ExpectedAs, envelope, request, transport >>

\* const MergedOptions = { ...DefaultOptions, ...(Options ?? {}) }, then the
\* instanceof URL check.
Call ==
  /\ pc = "call"
  /\ MergedOptions' = Spread(DefaultOptions, Options)
  /\ IF Url.isURL THEN pc' = "zod" /\ UNCHANGED promise
     ELSE Throw(UrlTypeError)
  /\ UNCHANGED << inputs, ExpectedAs, envelope, request, transport >>

\* The schema step with the scheme test run ahead of the parse.
ZodParse_SchemeFirst ==
  /\ pc = "zod"
  /\ IF SchemeViolation(MergedOptions, Url) THEN Throw(SchemeNotAllowed)
     ELSE IF SchemaAccepts(Options) THEN pc' = "scheme" /\ UNCHANGED promise
     ELSE Throw(SchemaError)
  /\ UNCHANGED << inputs, MergedOptions, ExpectedAs, envelope, request, transport >>

\* await Zod.strictObject({...}).parseAsync(Options ?? {})
ZodParse ==
  /\ pc = "zod"
  /\ IF SchemaAccepts(Options) THEN pc' = "scheme" /\ UNCHANGED promise
     ELSE Throw(SchemaError)
  /\ UNCHANGED << inputs, MergedOptions, ExpectedAs, envelope, request, transport >>

CheckScheme ==
  /\ pc = "scheme"
  /\ IF SchemeViolation(MergedOptions, Url)
     THEN Throw(SchemeNotAllowed)
     ELSE pc' = "payload" /\ UNCHANGED promise
  /\ UNCHANGED << inputs, MergedOptions, ExpectedAs, envelope, request, transport >>

CheckPayload ==
  /\ pc = "payload"
  /\ IF PayloadViolation(MergedOptions)
     THEN Throw(PayloadNotAllowed)
     ELSE pc' = "expectedAs" /\ UNCHANGED promise
  /\ UNCHANGED << inputs, MergedOptions, ExpectedAs, envelope, request, transport >>

ComputeExpectedAs ==
  /\ pc = "expectedAs"
  /\ ExpectedAs' = InferExpectedAs(Options, Url)
  /\ pc' = "dispatch"
  /\ UNCHANGED << inputs, MergedOptions, promise, envelope, request, transport >>

\* ------------------------------------------------------------- dispatch

\* minVersion, maxVersion, ciphers and ecdhCurve as handed to HTTPS.request
\* or TLS.connect; each <<>> (undefined) or <<value>>.
TLSParameters(M) ==
  [ minVersion |-> TLSField(M, "MinTLSVersion"),
    maxVersion |-> TLSField(M, "MaxTLSVersion"),
    ciphers    |-> IF TLSField(M, "Ciphers") = <<>> THEN <<>>
                   ELSE <<Join(M.TLS.Ciphers)>>,
    ecdhCurve  |-> IF TLSField(M, "KeyExchanges") = <<>> THEN <<>>
                   ELSE <<Join(M.TLS.KeyExchanges)>> ]

\* if (MergedOptions.Payload !== undefined) { ...write(MergedOptions.Payload) }
PayloadWrites(M) == IF HasKey(M, "Payload") THEN <<M.Payload>> ELSE <<>>

\* write(chunk) of a node:http request and of a node:http2 stream takes a
\* string, a Buffer or a Uint8Array and throws ERR_INVALID_ARG_TYPE for
\* anything else; an ArrayBuffer is none of the three.
WriteAccepts(chunk) == chunk.type \in {"string", "Uint8Array"}

InvalidArgType == "ERR_INVALID_ARG_TYPE"

\* The payload branch and end(): the write calls that succeed, the end()
\* calls made, and the error a write throws (<<>> when none does). A throw
\* leaves the executor, so end() is not reached.
SendBody(M) ==
  LET writes == PayloadWrites(M)
  IN IF writes # <<>> /\ ~WriteAccepts(writes[1])
     THEN [ written |-> <<>>, ended |-> 0, thrown |-> <<InvalidArgType>> ]
     ELSE [ written |-> writes, ended |-> 1, thrown |-> <<>> ]

\* Object.fromEntries(entries): the last entry of a name wins.
FromEntries(entries) ==
  [ k \in { entries[i].name : i \in 1..Len(entries) } |->
      LET last == CHOOSE i \in 1..Len(entries) :
                    /\ entries[i].name = k
                    /\ \A j \in (i + 1)..Len(entries) : entries[j].name # k
      IN entries[last].value ]

\* MergedOptions.HttpHeaders as an object
HttpHeadersOf(M) == IF HasKey(M, "HttpHeaders") THEN FromEntries(M.HttpHeaders) ELSE EmptyObj

\* Object.fromEntries(Object.entries(MergedOptions.HttpHeaders ?? {})
\*   .map(([Key, Value]) => [Key.toLowerCase(), Value]))
NormalizedHeaders(M) ==
  IF HasKey(M, "HttpHeaders")
  THEN FromEntries([ i \in 1..Len(M.HttpHeaders) |->
                      [ name  |-> LowerCaseText(M.HttpHeaders[i].name),
                        value |-> M.HttpHeaders[i].value ] ])
  ELSE EmptyObj

MethodName    == <<":", "m", "e", "t", "h", "o", "d">>
PathName      == <<":", "p", "a", "t", "h">>
SchemeName    == <<":", "s", "c", "h", "e", "m", "e">>
AuthorityName == <<":", "a", "u", "t", "h", "o", "r", "i", "t", "y">>

\* The four pseudo-headers of the RequestHeaders literal.
PseudoHeaders(M, U) ==
  Spread(Spread(Field(MethodName, IF HasKey(M, "HttpMethod") THEN M.HttpMethod ELSE "undefined"),
                Field(PathName, U.pathname \o U.search)),
         Spread(Field(SchemeName, "https"),
                Field(AuthorityName, U.host)))

\* const RequestHeaders = { ':method': ..., ':path': ..., ':scheme': ...,
\*   ':authority': ..., ...NormalizedHeaders }
RequestHeaders(M, U) == Spread(PseudoHeaders(M, U), NormalizedHeaders(M))

InvalidProtocol == "ERR_INVALID_PROTOCOL"

\* new Promise(...) of HTTPSRequest: HTTPS.request, the listeners, the payload
\* write and end(). HTTPS.request is given protocol: Url.protocol; node:https
\* throws ERR_INVALID_PROTOCOL for any protocol but 'https:', and a throw in
\* the executor rejects the promise.
H1Dispatch ==
  /\ pc = "dispatch"
  /\ entry = "HTTPSRequest"
  /\ IF Url.protocol # "https:"
     THEN /\ Throw(InvalidProtocol)
          /\ UNCHANGED << request, stream >>
     ELSE LET body == SendBody(MergedOptions)
          IN /\ opened' = opened + 1
             /\ handshake' = <<TLSParameters(MergedOptions)>>
             /\ sentHeaders' = <<HttpHeadersOf(MergedOptions)>>
             /\ written' = body.written
             /\ endCalls' = endCalls + body.ended
             /\ IF body.thrown # <<>>
                THEN Throw(body.thrown[1]) /\ UNCHANGED stream
                ELSE stream' = "open" /\ pc' = "await" /\ UNCHANGED promise
  /\ UNCHANGED << inputs, MergedOptions, ExpectedAs, envelope, session, closeCalls,
                  Chunks, delivered, BodyBuffer, response, failure, cause, uncaught >>

\* new Promise(...) of HTTPS2Request: HTTP2.connect to https://host with a
\* TLS.connect socket, session.request, the listeners, the payload write and
\* end().
H2Dispatch ==
  /\ pc = "dispatch"
  /\ entry = "HTTPS2Request"
  /\ LET body == SendBody(MergedOptions)
     IN /\ opened' = opened + 1
        /\ handshake' = <<TLSParameters(MergedOptions)>>
        /\ session' = "open"
        /\ sentHeaders' = <<RequestHeaders(MergedOptions, Url)>>
        /\ written' = body.written
        /\ endCalls' = endCalls + body.ended
        /\ IF body.thrown # <<>>
           THEN Throw(body.thrown[1]) /\ UNCHANGED stream
           ELSE stream' = "open" /\ pc' = "await" /\ UNCHANGED promise
  /\ UNCHANGED << inputs, MergedOptions, ExpectedAs, envelope, closeCalls,
                  Chunks, delivered, BodyBuffer, response, failure, cause, uncaught >>


\* ------------------------------------------------------ byte aggregation

\* A 'data' event's Chunk: a view (byteOffset, byteLength) of a larger buffer.
ChunkViews ==
  { [ buffer |-> <<>>,            byteOffset |-> 0, byteLength |-> 0 ],
    [ buffer |-> <<120, 49>>,     byteOffset |-> 1, byteLength |-> 1 ],
    [ buffer |-> <<120, 49>>,     byteOffset |-> 0, byteLength |-> 2 ],
    [ buffer |-> <<32, 49, 120>>, byteOffset |-> 0, byteLength |-> 2 ] }

\* The bytes the transport delivered with a chunk.
ViewBytes(Chunk) ==
  [ i \in 1..Chunk.byteLength |-> Chunk.buffer[Chunk.byteOffset + i] ]

\* ArrayBuffer.prototype.slice(begin, end)
ArrayBufferSlice(buffer, begin, end) == SubSeq(buffer, begin + 1, end)

\* Chunk.buffer.slice(Chunk.byteOffset, Chunk.byteOffset + Chunk.byteLength)
SliceChunk(Chunk) ==
  ArrayBufferSlice(Chunk.buffer, Chunk.byteOffset, Chunk.byteOffset + Chunk.byteLength)

\* Buffers.reduce((Sum, Block) => Sum + Block.byteLength, 0)
RECURSIVE TotalLength(_)
TotalLength(Buffers) ==
  IF Buffers = <<>> THEN 0 ELSE Len(Head(Buffers)) + TotalLength(Tail(Buffers))

\* TypedArray.prototype.set(source, offset)
TypedArraySet(Result, source, Offset) ==
  [ i \in 1..Len(Result) |->
      IF i > Offset /\ i <= Offset + Len(source) THEN source[i - Offset] ELSE Result[i] ]

\* The loop without `Offset += Buffer.byteLength`.
RECURSIVE ConcatLoop_OffsetNotAdvanced(_, _, _)
ConcatLoop_OffsetNotAdvanced(Buffers, Result, Offset) ==
  IF Buffers = <<>> THEN Result
  ELSE ConcatLoop_OffsetNotAdvanced(Tail(Buffers),
                                    TypedArraySet(Result, Head(Buffers), Offset),
                                    Offset)

\* for (const Buffer of Buffers) { Result.set(...); Offset += Buffer.byteLength }
RECURSIVE ConcatLoop(_, _, _)
ConcatLoop(Buffers, Result, Offset) ==
  IF Buffers = <<>> THEN Result
  ELSE ConcatLoop(Tail(Buffers),
                  TypedArraySet(Result, Head(Buffers), Offset),
                  Offset + Len(Head(Buffers)))

ConcatArrayBuffers(Buffers) ==
  ConcatLoop(Buffers, [ i \in 1..TotalLength(Buffers) |-> 0 ], 0)

\* --------------------------------------------------------- body decoding

\* new TextDecoder('utf-8').decode, on the bytes of the model: the ASCII
\* bytes decode to their character, any other byte to U+FFFD.
CharOf(byte) ==
  CASE byte = 32  -> " "
    [] byte = 49  -> "1"
    [] byte = 120 -> "x"
    [] OTHER      -> "U+FFFD"

TextDecode(buffer) == [ i \in 1..Len(buffer) |-> CharOf(buffer[i]) ]

RECURSIVE SkipSpaces(_)
SkipSpaces(text) ==
  IF text # <<>> /\ Head(text) = " " THEN SkipSpaces(Tail(text)) ELSE text

RECURSIVE DropTrailingSpaces(_)
DropTrailingSpaces(text) ==
  IF text # <<>> /\ text[Len(text)] = " "
  THEN DropTrailingSpaces(SubSeq(text, 1, Len(text) - 1))
  ELSE text

RECURSIVE NumberOf(_)
NumberOf(digits) ==
  IF digits = <<>> THEN 0
  ELSE 10 * NumberOf(SubSeq(digits, 1, Len(digits) - 1)) + 1

\* JSON.parse on the texts of the model: optional white space around one
\* number written with the digit 1; anything else is a SyntaxError.
\* <<>> is the throw, <<n>> the parsed value.
JSONParse(text) ==
  LET token == DropTrailingSpaces(SkipSpaces(text))
  IN IF token # <<>> /\ \A i \in DOMAIN token : token[i] = "1"
     THEN <<NumberOf(token)>>
     ELSE <<>>

\* The switch (ExpectedAs) of the 'end' listener: <<>> when JSON.parse
\* throws, else <<Body>>.
DecodeBody(kind, buffer) ==
  CASE kind = "JSON" ->
         LET parsed == JSONParse(TextDecode(buffer))
         IN IF parsed = <<>> THEN <<>>
            ELSE << [ kind |-> "JSON", json |-> parsed[1], text |-> <<>>, bytes |-> <<>> ] >>
    [] kind = "String" ->
         << [ kind |-> "String", json |-> 0, text |-> TextDecode(buffer), bytes |-> <<>> ] >>
    [] OTHER ->
         << [ kind |-> "ArrayBuffer", json |-> 0, text |-> <<>>, bytes |-> buffer ] >>

\* `catch (Error) { ... new Error('Failed to parse JSON response body') }`:
\* inside the catch block Error names the caught SyntaxError, not the global
\* constructor, so the `new` expression throws this TypeError before Reject
\* is called; it leaves the listener as an uncaught exception.
CatchBlockThrow == "TypeError: Error is not a constructor"

\* ------------------------------------------------------ transport events

Causes == { "ECONNRESET", "ETIMEDOUT" }

\* Where the response is when the transport fails.
Stage ==
  IF stream = "open" THEN "before-headers"
  ELSE IF Chunks = <<>> THEN "after-headers"
  ELSE "between-chunks"

\* Res.on('data') / Request.on('data')
OnData(Chunk) ==
  /\ Chunks' = Append(Chunks, SliceChunk(Chunk))
  /\ delivered' = Append(delivered, ViewBytes(Chunk))

ContentType == <<"c", "o", "n", "t", "e", "n", "t", "-", "t", "y", "p", "e">>
StatusName  == <<":", "s", "t", "a", "t", "u", "s">>

\* What the transport reports with the response headers: the status (<<>>
\* when it reports none) and the ordinary headers.
Responses ==
  { [ status |-> <<200>>, headers |-> Field(ContentType, "text/plain") ],
    [ status |-> <<>>,    headers |-> EmptyObj ] }

\* The Headers argument of the 'response' event of an HTTP/2 stream: the
\* ordinary headers and ':status'.
H2Headers(r) ==
  IF r.status = <<>> THEN r.headers
  ELSE Spread(Field(StatusName, r.status[1]), r.headers)

\* Number(value) of a value that is a number already
ToNumber(value) == value

\* Number(Headers[':status'] ?? 0)
StatusOf(Headers) ==
  IF HasKey(Headers, StatusName) THEN ToNumber(Headers[StatusName]) ELSE ToNumber(0)

\* Value?.toString() of a string
ValueToString(Value) == Value

\* The response headers copied without the filter.
FilterHeaders_KeepAll(Headers) ==
  [ Key \in DOMAIN Headers |-> ValueToString(Headers[Key]) ]

\* Object.fromEntries(Object.entries(Headers)
\*   .filter(([Key]) => !Key.startsWith(':')).map(([Key, Value]) => [Key, Value?.toString()]))
FilterHeaders(Headers) ==
  [ Key \in { k \in DOMAIN Headers : ~StartsWith(k, <<":">>) } |->
      ValueToString(Headers[Key]) ]

\* The HTTPS.request callback: the response headers have arrived. Res.statusCode
\* and Res.headers are what the 'end' listener reads.
H1Response ==
  /\ entry = "HTTPSRequest"
  /\ stream = "open"
  /\ stream' = "response"
  /\ \E r \in Responses :
       /\ StatusCode' = IF r.status = <<>> THEN 0 ELSE r.status[1]
       /\ ResponseHeaders' = r.headers
       /\ received' = <<H2Headers(r)>>
  /\ UNCHANGED << inputs, pc, MergedOptions, ExpectedAs, promise, envelope, request,
                  session, closeCalls, Chunks, delivered, BodyBuffer, failure, cause,
                  uncaught >>

H1Data ==
  /\ entry = "HTTPSRequest"
  /\ stream = "response"
  /\ Len(Chunks) < MaxChunks
  /\ \E Chunk \in ChunkViews : OnData(Chunk)
  /\ UNCHANGED << inputs, pc, MergedOptions, ExpectedAs, promise, envelope, request,
                  stream, session, closeCalls, BodyBuffer, response, failure, cause,
                  uncaught >>

\* Res.on('end')
H1End ==
  /\ entry = "HTTPSRequest"
  /\ stream = "response"
  /\ stream' = "ended"
  /\ LET buffer == ConcatArrayBuffers(Chunks)
         Body   == DecodeBody(ExpectedAs, buffer)
     IN /\ BodyBuffer' = <<buffer>>
        /\ IF Body = <<>>
           THEN /\ uncaught' = Append(uncaught, CatchBlockThrow)
                /\ UNCHANGED << promise, envelope >>
           ELSE /\ promise' = Settle(promise, Fulfilled)
                /\ envelope' = IF promise.state = "pending"
                               THEN << [ StatusCode |-> StatusCode,
                                         Headers    |-> ResponseHeaders,
                                         Body       |-> Body[1] ] >>
                               ELSE envelope
                /\ UNCHANGED uncaught
  /\ UNCHANGED << inputs, pc, MergedOptions, ExpectedAs, request, session, closeCalls,
                  Chunks, delivered, response, failure, cause >>

\* HTTPSRequestInstance.on('error')
H1RequestError ==
  /\ entry = "HTTPSRequest"
  /\ stream \in {"open", "response"}
  /\ \E c \in Causes :
       /\ promise' = Settle(promise, Rejected(c))
       /\ cause' = c
  /\ failure' = Stage
  /\ stream' = "errored"
  /\ UNCHANGED << inputs, pc, MergedOptions, ExpectedAs, envelope, request, session,
                  closeCalls, Chunks, delivered, BodyBuffer, response, uncaught >>

\* The connection closes before the response is complete: node:http destroys
\* the response (Res), which emits 'aborted', 'error' and 'close' and never
\* 'end'. The code registers only 'data' and 'end' listeners on Res, so no
\* code of the request runs.
H1ResponseAborted ==
  /\ entry = "HTTPSRequest"
  /\ stream = "response"
  /\ \E c \in Causes : cause' = c
  /\ failure' = Stage
  /\ stream' = "aborted"
  /\ UNCHANGED << inputs, pc, MergedOptions, ExpectedAs, promise, envelope, request,
                  session, closeCalls, Chunks, delivered, BodyBuffer, response, uncaught >>

\* Request.on('response')
H2Response ==
  /\ entry = "HTTPS2Request"
  /\ session = "open"
  /\ stream = "open"
  /\ stream' = "response"
  /\ \E r \in Responses :
       LET Headers == H2Headers(r)
       IN /\ StatusCode' = StatusOf(Headers)
          /\ ResponseHeaders' = FilterHeaders(Headers)
          /\ received' = <<Headers>>
  /\ UNCHANGED << inputs, pc, MergedOptions, ExpectedAs, promise, envelope, request,
                  session, closeCalls, Chunks, delivered, BodyBuffer, failure, cause,
                  uncaught >>

H2Data ==
  /\ entry = "HTTPS2Request"
  /\ session = "open"
  /\ stream = "response"
  /\ Len(Chunks) < MaxChunks
  /\ \E Chunk \in ChunkViews : OnData(Chunk)
  /\ UNCHANGED << inputs, pc, MergedOptions, ExpectedAs, promise, envelope, request,
                  stream, session, closeCalls, BodyBuffer, response, failure, cause,
                  uncaught >>

\* Request.on('end'); the listener does not depend on a 'response' event
\* having come first.
H2End ==
  /\ entry = "HTTPS2Request"
  /\ session = "open"
  /\ stream \in {"open", "response"}
  /\ stream' = "ended"
  /\ closeCalls' = closeCalls + 1
  /\ LET buffer == ConcatArrayBuffers(Chunks)
         Body   == DecodeBody(ExpectedAs, buffer)
     IN /\ BodyBuffer' = <<buffer>>
        /\ IF Body = <<>>
           THEN /\ uncaught' = Append(uncaught, CatchBlockThrow)
                /\ UNCHANGED << promise, envelope >>
           ELSE /\ promise' = Settle(promise, Fulfilled)
                /\ envelope' = IF promise.state = "pending"
                               THEN << [ StatusCode |-> StatusCode,
                                         Headers    |-> ResponseHeaders,
                                         Body       |-> Body[1] ] >>
                               ELSE envelope
                /\ UNCHANGED uncaught
  /\ UNCHANGED << inputs, pc, MergedOptions, ExpectedAs, request, session, Chunks,
                  delivered, response, failure, cause >>

\* Request.on('error')
H2StreamError ==
  /\ entry = "HTTPS2Request"
  /\ stream \in {"open", "response"}
  /\ closeCalls' = closeCalls + 1
  /\ \E c \in Causes :
       /\ promise' = Settle(promise, Rejected(c))
       /\ cause' = IF failure = "none" THEN c ELSE cause
  /\ failure' = IF failure = "none" THEN Stage ELSE failure
  /\ stream' = "errored"
  /\ UNCHANGED << inputs, pc, MergedOptions, ExpectedAs, envelope, request, session,
                  Chunks, delivered, BodyBuffer, response, uncaught >>

\* HTTP2Session.on('error'). The session can fail while its stream is open,
\* after the stream failed, and after the stream ended (close() lets the
\* session finish, it does not remove the listener); a failure after the end
\* of the stream is not a failure of the request.
H2SessionError ==
  /\ entry = "HTTPS2Request"
  /\ session = "open"
  /\ stream \in {"open", "response", "errored", "ended"}
  /\ \E c \in Causes :
       /\ promise' = Settle(promise, Rejected(c))
       /\ cause' = IF failure = "none" /\ stream # "ended" THEN c ELSE cause
  /\ failure' = IF failure = "none" /\ stream # "ended" THEN Stage ELSE failure
  /\ session' = "errored"
  /\ UNCHANGED << inputs, pc, MergedOptions, ExpectedAs, envelope, request, stream,
                  closeCalls, Chunks, delivered, BodyBuffer, response, uncaught >>

\* ---------------------------------------------------------- specification

Next ==
  \/ Call
  \/ ZodParse
  \/ CheckScheme
  \/ CheckPayload
  \/ ComputeExpectedAs
  \/ H1Dispatch
  \/ H2Dispatch
  \/ H1Response
  \/ H1Data
  \/ H1End
  \/ H1RequestError
  \/ H1ResponseAborted
  \/ H2Response
  \/ H2Data
  \/ H2End
  \/ H2StreamError
  \/ H2SessionError

Spec == Init /\ [][Next]_vars


\* ------------------------------------------- the decoder, applied repeatedly

MaxDecodes == 2

\* Sequences of at most n elements of S.
RECURSIVE SeqsUpTo(_, _)
SeqsUpTo(S, n) ==
  IF n = 0 THEN { <<>> }
  ELSE LET shorter == SeqsUpTo(S, n - 1)
       IN shorter \cup { Append(q, x) : q \in { r \in shorter : Len(r) = n - 1 }, x \in S }

\* A decoding that empties the buffer it decodes a text from.
BodyBufferAfter_Consumed(kind, buffer) == IF kind = "ArrayBuffer" THEN buffer ELSE <<>>

\* BodyBuffer after the switch (ExpectedAs): TextDecoder.decode and JSON.parse
\* read the buffer, `Body = BodyBuffer` hands it out; none writes it.
BodyBufferAfter(kind, buffer) == buffer

\* The state of a call whose response has ended and whose chunks have been
\* concatenated, for every chunk sequence and every expected kind.
InitDecode ==
  /\ entry \in EntryPoints
  /\ Url = [ isURL |-> TRUE, protocol |-> "https:", host |-> "example.test",
             pathname |-> Root, search |-> NoSearch ]
  /\ Options = EmptyObj
  /\ pc = "await"
  /\ MergedOptions = DefaultOptions
  /\ ExpectedAs \in ExpectedAsKeys
  /\ promise = Pending
  /\ envelope = <<>>
  /\ opened = 1
  /\ handshake = <<TLSParameters(DefaultOptions)>>
  /\ written = <<>>
  /\ endCalls = 1
  /\ sentHeaders = <<HttpHeadersOf(DefaultOptions)>>
  /\ stream = "ended"
  /\ session = "none"
  /\ closeCalls = 0
  /\ \E views \in SeqsUpTo(ChunkViews, MaxChunks) :
       /\ Chunks = [ i \in 1..Len(views) |-> SliceChunk(views[i]) ]
       /\ delivered = [ i \in 1..Len(views) |-> ViewBytes(views[i]) ]
  /\ BodyBuffer = <<ConcatArrayBuffers(Chunks)>>
  /\ StatusCode = 0
  /\ ResponseHeaders = EmptyObj
  /\ received = <<>>
  /\ failure = "none"
  /\ cause = ""
  /\ uncaught = <<>>

\* The switch (ExpectedAs) over BodyBuffer, run once more: its result is
\* appended to envelope, its throw to uncaught.
Decode ==
  /\ Len(envelope) + Len(uncaught) < MaxDecodes
  /\ LET Body == DecodeBody(ExpectedAs, BodyBuffer[1])
     IN IF Body = <<>>
        THEN uncaught' = Append(uncaught, "SyntaxError") /\ UNCHANGED envelope
        ELSE envelope' = Append(envelope, Body[1]) /\ UNCHANGED uncaught
  /\ BodyBuffer' = <<BodyBufferAfter(ExpectedAs, BodyBuffer[1])>>
  /\ UNCHANGED << inputs, pc, MergedOptions, ExpectedAs, promise, request, stream,
                  session, closeCalls, Chunks, delivered, response, failure, cause >>

NextDecode == Decode

SpecDecode == InitDecode /\ [][NextDecode]_vars


\* ------------------------------------------------- two calls in flight

\* Two calls whose validation has passed. Every variable a call's executor
\* and listeners declare or receive is a function of the call.
Calls == { 1, 2 }

\* The chunks of the two calls: the two views of one two-byte buffer.
PairChunkViews == { v \in ChunkViews : v.buffer = <<120, 49>> }

\* The kinds the two calls expect: one that can fail to decode, one that
\* hands out the bytes.
PairKinds == { "JSON", "ArrayBuffer" }

\* One session, one request and one set of listener variables for the module.
Own_Shared(c) == 1

\* The Chunks, StatusCode, ResponseHeaders, HTTP2Session and request that the
\* listeners of call c use: the ones its own executor declared (const / let
\* inside the executor and the response callback); the module has none.
Own(c) == c

InitPair ==
  /\ entry \in [ Calls -> EntryPoints ]
  /\ Url = [ isURL |-> TRUE, protocol |-> "https:", host |-> "example.test",
             pathname |-> Root, search |-> NoSearch ]
  /\ Options = EmptyObj
  /\ MergedOptions = DefaultOptions
  /\ ExpectedAs \in [ Calls -> PairKinds ]
  /\ pc = [ c \in Calls |-> "dispatch" ]
  /\ promise = [ c \in Calls |-> Pending ]
  /\ envelope = [ c \in Calls |-> <<>> ]
  /\ opened = [ c \in Calls |-> 0 ]
  /\ handshake = <<>>
  /\ written = <<>>
  /\ endCalls = 0
  /\ sentHeaders = <<>>
  /\ stream = [ c \in Calls |-> [ state |-> "none", on |-> 0 ] ]
  /\ session = [ c \in Calls |-> "none" ]
  /\ closeCalls = [ c \in Calls |-> 0 ]
  /\ Chunks = [ c \in Calls |-> <<>> ]
  /\ delivered = [ c \in Calls |-> <<>> ]
  /\ BodyBuffer = [ c \in Calls |-> <<>> ]
  /\ StatusCode = [ c \in Calls |-> 0 ]
  /\ ResponseHeaders = [ c \in Calls |-> EmptyObj ]
  /\ received = [ c \in Calls |-> <<>> ]
  /\ failure = [ c \in Calls |-> "none" ]
  /\ cause = [ c \in Calls |-> "" ]
  /\ uncaught = [ c \in Calls |-> <<>> ]

fixedInPair == << inputs, MergedOptions, ExpectedAs, handshake, written, endCalls,
                  sentHeaders >>

IsH2(c) == entry[c] = "HTTPS2Request"

\* The promise executor of call c: the request or the session and its
\* stream are created, and for HTTPS2Request Chunks, StatusCode and
\* ResponseHeaders are declared.
PairDispatch(c) ==
  /\ pc[c] = "dispatch"
  /\ pc' = [ pc EXCEPT ![c] = "await" ]
  /\ opened' = [ opened EXCEPT ![c] = @ + 1 ]
  /\ stream' = [ stream EXCEPT ![c] = [ state |-> "open", on |-> Own(c) ] ]
  /\ IF IsH2(c)
     THEN /\ session' = [ session EXCEPT ![Own(c)] = "open" ]
          /\ Chunks' = [ Chunks EXCEPT ![Own(c)] = <<>> ]
          /\ StatusCode' = [ StatusCode EXCEPT ![Own(c)] = 0 ]
          /\ ResponseHeaders' = [ ResponseHeaders EXCEPT ![Own(c)] = EmptyObj ]
     ELSE UNCHANGED << session, Chunks, StatusCode, ResponseHeaders >>
  /\ UNCHANGED << fixedInPair, promise, envelope, closeCalls, delivered, BodyBuffer,
                  received, failure, cause, uncaught >>

\* The HTTPS.request callback / Request.on('response') of call c.
PairResponse(c) ==
  /\ stream[c].state = "open"
  /\ IsH2(c) => session[Own(c)] = "open"
  /\ stream' = [ stream EXCEPT ![c].state = "response" ]
  /\ \E r \in Responses :
       /\ received' = [ received EXCEPT ![c] = <<H2Headers(r)>> ]
       /\ IF IsH2(c)
          THEN /\ StatusCode' = [ StatusCode EXCEPT ![Own(c)] = StatusOf(H2Headers(r)) ]
               /\ ResponseHeaders' =
                    [ ResponseHeaders EXCEPT ![Own(c)] = FilterHeaders(H2Headers(r)) ]
               /\ UNCHANGED Chunks
          ELSE /\ StatusCode' =
                    [ StatusCode EXCEPT ![Own(c)] = IF r.status = <<>> THEN 0 ELSE r.status[1] ]
               /\ ResponseHeaders' = [ ResponseHeaders EXCEPT ![Own(c)] = r.headers ]
               /\ Chunks' = [ Chunks EXCEPT ![Own(c)] = <<>> ]
  /\ UNCHANGED << fixedInPair, pc, promise, envelope, opened, session, closeCalls,
                  delivered, BodyBuffer, failure, cause, uncaught >>

\* Res.on('data') / Request.on('data') of call c.
PairData(c) ==
  /\ stream[c].state = "response"
  /\ IsH2(c) => session[Own(c)] = "open"
  /\ Len(delivered[c]) < MaxChunks
  /\ \E Chunk \in PairChunkViews :
       /\ Chunks' = [ Chunks EXCEPT ![Own(c)] = Append(@, SliceChunk(Chunk)) ]
       /\ delivered' = [ delivered EXCEPT ![c] = Append(@, ViewBytes(Chunk)) ]
  /\ UNCHANGED << fixedInPair, pc, promise, envelope, opened, stream, session,
                  closeCalls, BodyBuffer, response, failure, cause, uncaught >>

\* Res.on('end') / Request.on('end') of call c.
PairEnd(c) ==
  /\ IF IsH2(c)
     THEN stream[c].state \in {"open", "response"} /\ session[Own(c)] = "open"
     ELSE stream[c].state = "response"
  /\ stream' = [ stream EXCEPT ![c].state = "ended" ]
  /\ closeCalls' = IF IsH2(c) THEN [ closeCalls EXCEPT ![Own(c)] = @ + 1 ] ELSE closeCalls
  /\ LET buffer == ConcatArrayBuffers(Chunks[Own(c)])
         Body   == DecodeBody(ExpectedAs[c], buffer)
     IN /\ BodyBuffer' = [ BodyBuffer EXCEPT ![Own(c)] = <<buffer>> ]
        /\ IF Body = <<>>
           THEN /\ uncaught' = [ uncaught EXCEPT ![c] = Append(@, CatchBlockThrow) ]
                /\ UNCHANGED << promise, envelope >>
           ELSE /\ promise' = [ promise EXCEPT ![c] = Settle(@, Fulfilled) ]
                /\ envelope' =
                     [ envelope EXCEPT ![c] =
                         IF promise[c].state = "pending"
                         THEN << [ StatusCode |-> StatusCode[Own(c)],
                                   Headers    |-> ResponseHeaders[Own(c)],
                                   Body       |-> Body[1] ] >>
                         ELSE @ ]
                /\ UNCHANGED uncaught
  /\ UNCHANGED << fixedInPair, pc, opened, session, Chunks, delivered, response,
                  failure, cause >>

\* HTTPSRequestInstance.on('error') / Request.on('error') of call c.
PairError(c) ==
  /\ stream[c].state \in {"open", "response"}
  /\ stream' = [ stream EXCEPT ![c].state = "errored" ]
  /\ closeCalls' = IF IsH2(c) THEN [ closeCalls EXCEPT ![Own(c)] = @ + 1 ] ELSE closeCalls
  /\ \E x \in Causes :
       /\ promise' = [ promise EXCEPT ![c] = Settle(@, Rejected(x)) ]
       /\ cause' = [ cause EXCEPT ![c] = IF failure[c] = "none" THEN x ELSE @ ]
  /\ failure' = [ failure EXCEPT ![c] = "error" ]
  /\ UNCHANGED << fixedInPair, pc, envelope, opened, session, Chunks, delivered,
                  BodyBuffer, response, uncaught >>

\* HTTP2Session.on('error') of call c.
PairSessionError(c) ==
  /\ IsH2(c)
  /\ session[Own(c)] = "open"
  /\ stream[c].state \in {"open", "response", "errored", "ended"}
  /\ session' = [ session EXCEPT ![Own(c)] = "errored" ]
  /\ \E x \in Causes :
       /\ promise' = [ promise EXCEPT ![c] = Settle(@, Rejected(x)) ]
       /\ cause' = [ cause EXCEPT ![c] = IF failure[c] = "none" THEN x ELSE @ ]
  /\ failure' = [ failure EXCEPT ![c] = "error" ]
  /\ UNCHANGED << fixedInPair, pc, envelope, opened, stream, closeCalls, Chunks,
                  delivered, BodyBuffer, response, uncaught >>

NextPair ==
  \E c \in Calls :
    \/ PairDispatch(c)
    \/ PairResponse(c)
    \/ PairData(c)
    \/ PairEnd(c)
    \/ PairError(c)
    \/ PairSessionError(c)

SpecPair == InitPair /\ [][NextPair]_vars


\* ------------------------------------------------------------- properties

\* What the caller asked for, read off the arguments.
CallerTLS == IF HasKey(Options, "TLS") THEN Options.TLS ELSE EmptyObj

EnforcementResolved ==
  TLSField(Spread(DefaultOptions, Options), "IsHTTPSEnforced") = <<TRUE>>

NothingOpened ==
  /\ opened = 0
  /\ handshake = <<>>
  /\ stream = "none"
  /\ session = "none"
  /\ written = <<>>
  /\ endCalls = 0

PastSchemeCheck == pc \in {"payload", "expectedAs", "dispatch", "await", "done"}

\* C1: on both entry points, with a configuration that is otherwise valid, a
\* resolved IsHTTPSEnforced of true and a target that is not https: the call
\* fails with the scheme error, and no request, session or socket is created
\* at any point of the execution.
C1_SchemeRejectedBeforeAnySocket ==
  (Url.isURL /\ SchemaAccepts(Options) /\ EnforcementResolved /\ Url.protocol # "https:")
    => /\ NothingOpened
       /\ PastSchemeCheck => (pc = "done" /\ promise = Rejected(SchemeNotAllowed))

C1_Witness ==
  /\ Url.isURL /\ SchemaAccepts(Options) /\ EnforcementResolved
  /\ Url.protocol = "http:"
  /\ entry = "HTTPS2Request"
  /\ pc = "done"
  /\ promise = Rejected(SchemeNotAllowed)
  /\ NothingOpened

\* C2: enforcement is on unless the caller sets TLS.IsHTTPSEnforced to false:
\* with no options, no TLS object, or a TLS object that gives only other
\* fields, a request to a target that is not https is rejected and never
\* dispatched.
C2_EnforcedUnlessDisabled ==
  (/\ Url.isURL
   /\ Url.protocol # "https:"
   /\ ~(HasKey(CallerTLS, "IsHTTPSEnforced") /\ CallerTLS.IsHTTPSEnforced = FALSE))
    => /\ NothingOpened
       /\ pc # "await"

\* C3: option resolution merges the TLS policy field by field: a field the
\* caller gives keeps the caller's value, a field the caller omits has its
\* default, and the versions handed to the handshake are those.
C3_FieldLevelMerge ==
  handshake # <<>> =>
       /\ \A f \in TLSKeys :
            TLSField(MergedOptions, f) =
              IF HasKey(CallerTLS, f) THEN <<CallerTLS[f]>> ELSE <<DefaultTLS[f]>>
       /\ handshake[1].minVersion =
            IF HasKey(CallerTLS, "MinTLSVersion") THEN <<CallerTLS.MinTLSVersion>>
            ELSE <<DefaultTLS.MinTLSVersion>>
       /\ handshake[1].maxVersion =
            IF HasKey(CallerTLS, "MaxTLSVersion") THEN <<CallerTLS.MaxTLSVersion>>
            ELSE <<DefaultTLS.MaxTLSVersion>>

\* C4: when the expected kind is JSON (given or inferred) and the aggregated
\* body is not valid JSON, the promise is rejected and no response is
\* delivered, on both entry points.
C4_StructuredParseFailureRejects ==
  (/\ stream = "ended"
   /\ ExpectedAs = "JSON"
   /\ JSONParse(TextDecode(BodyBuffer[1])) = <<>>)
    => /\ promise.state = "rejected"
       /\ envelope = <<>>

\* C5: any payload that is present (an empty one too) with method DELETE or
\* HEAD makes the call fail with the payload error, with no network I/O and
\* no payload written.
C5_PayloadRejectedForDeleteHead ==
  (/\ Url.isURL /\ Url.protocol = "https:" /\ SchemaAccepts(Options)
   /\ HasKey(Options, "Payload")
   /\ HasKey(Options, "HttpMethod") /\ Options.HttpMethod \in {"DELETE", "HEAD"})
    => /\ NothingOpened
       /\ pc \in {"await", "done"} => promise = Rejected(PayloadNotAllowed)

\* The rules the code validates a call by, in terms of the arguments.
C6_RulesPass ==
  /\ Url.isURL
  /\ SchemaAccepts(Options)
  /\ ~(EnforcementResolved /\ Url.protocol # "https:")
  /\ ~(/\ HasKey(Options, "Payload")
       /\ ~(Options.Payload.type = "string" /\ Options.Payload.data = <<>>)
       /\ (IF HasKey(Options, "HttpMethod") THEN Options.HttpMethod ELSE "GET")
            \notin {"GET", "POST", "PUT", "PATCH", "OPTIONS"})

\* C6: on both entry points no request, session or socket is created until
\* every validation rule has passed, and an execution that ends in a
\* validation error has created none.
C6_NoConnectionBeforeValidation ==
  /\ ~NothingOpened => (C6_RulesPass /\ pc \in {"await", "done"})
  /\ (promise.state = "rejected"
      /\ promise.reason \in {UrlTypeError, SchemaError, SchemeNotAllowed, PayloadNotAllowed})
       => (NothingOpened /\ pc = "done")
  /\ pc \in {"call", "zod", "scheme", "payload", "expectedAs", "dispatch"} => NothingOpened

C6_Witness ==
  /\ opened = 1
  /\ pc = "await"
  /\ C6_RulesPass
  /\ HasKey(Options, "Payload")
  /\ HasKey(Options, "TLS")

\* C7: a transport failure at any stage of a dispatched request (before the
\* headers, after them, between chunks), on either entry point, rejects the
\* promise with the failure's cause, and no response is delivered.
C7_TransportFailureRejects ==
  failure # "none" => (promise = Rejected(cause) /\ envelope = <<>>)

\* C8: in HTTPS2Request, once the request has settled the session it opened
\* has been closed by the code exactly once, whichever way it settled.
C8_SessionClosedExactlyOnce ==
  (entry = "HTTPS2Request" /\ pc = "await" /\ promise.state # "pending")
    => closeCalls = 1

RECURSIVE C9_Flatten(_)
C9_Flatten(chunks) ==
  IF chunks = <<>> THEN <<>> ELSE Head(chunks) \o C9_Flatten(Tail(chunks))

RECURSIVE C9_SumOfLengths(_)
C9_SumOfLengths(chunks) ==
  IF chunks = <<>> THEN 0 ELSE Len(Head(chunks)) + C9_SumOfLengths(Tail(chunks))

\* C9: for every sequence of chunks the transport delivers, empty chunks and
\* no chunk at all included, the buffer handed to the decoder is the chunks'
\* bytes in arrival order, its length the sum of their lengths.
C9_AggregationPreservesOrder ==
  /\ Chunks = delivered
  /\ BodyBuffer # <<>> =>
       /\ BodyBuffer[1] = C9_Flatten(delivered)
       /\ Len(BodyBuffer[1]) = C9_SumOfLengths(delivered)

C9_Witness ==
  /\ BodyBuffer # <<>>
  /\ Len(delivered) >= 2
  /\ delivered[1] # <<>>
  /\ delivered[2] # <<>>
  /\ delivered[1] # delivered[2]

\* The last n characters of a path (the whole path when it is shorter).
C10_Last(path, n) ==
  IF Len(path) <= n THEN path ELSE [ i \in 1..n |-> path[Len(path) - n + i] ]

C10_KindOfPath(path) ==
  IF C10_Last(path, Len(DotJson)) = DotJson THEN "JSON"
  ELSE IF C10_Last(path, Len(DotTxt)) = DotTxt THEN "String"
  ELSE "ArrayBuffer"

C10_Selected ==
  IF HasKey(Options, "ExpectedAs") THEN Options.ExpectedAs
  ELSE C10_KindOfPath(Url.pathname)

\* C10: an ExpectedAs the caller gives is the kind used; without one the kind
\* follows from the path alone, .json JSON, .txt String, anything else
\* ArrayBuffer, whatever the query string; so path '/' with query
\* 'format=json' and no ExpectedAs gives the raw bytes.
C10_BodyKindSelection ==
  /\ pc \in {"dispatch", "await"} => ExpectedAs = C10_Selected
  /\ envelope # <<>> => envelope[1].Body.kind = C10_Selected
  /\ (/\ envelope # <<>>
      /\ Url.pathname = Root /\ Url.search = FormatJson
      /\ ~HasKey(Options, "ExpectedAs"))
       => /\ envelope[1].Body.kind = "ArrayBuffer"
          /\ envelope[1].Body.bytes = BodyBuffer[1]

C10_Witness ==
  /\ envelope # <<>>
  /\ Url.pathname = Root /\ Url.search = FormatJson
  /\ ~HasKey(Options, "ExpectedAs")
  /\ envelope[1].Body.bytes # <<>>

\* C11: a target that is not a URL instance makes the call fail with the
\* TypeError of the URL check, before the options are validated and with no
\* network I/O, whatever the options are - invalid ones included.
C11_TargetCheckedFirst ==
  ~Url.isURL =>
    /\ NothingOpened
    /\ pc \in {"call", "done"}
    /\ pc = "call" => promise = Pending
    /\ pc = "done" => promise = Rejected(UrlTypeError)

C11_Witness ==
  /\ ~Url.isURL
  /\ ~SchemaAccepts(Options)
  /\ pc = "done"
  /\ promise = Rejected(UrlTypeError)

C13_SchemeErrorReportedFirst ==
  (/\ Url.isURL
   /\ SchemeViolation(Spread(DefaultOptions, Options), Url)
   /\ pc = "done")
    => promise = Rejected(SchemeNotAllowed)

\* The error of the first rule a call violates, in the order URL instance,
\* options schema, scheme, payload; "" when it violates none.
C13_FirstViolation ==
  LET merged == Spread(DefaultOptions, Options)
  IN IF ~Url.isURL THEN UrlTypeError
     ELSE IF ~SchemaAccepts(Options) THEN SchemaError
     ELSE IF SchemeViolation(merged, Url) THEN SchemeNotAllowed
     ELSE IF PayloadViolation(merged) THEN PayloadNotAllowed
     ELSE ""

\* C13: the rules are evaluated in the order URL instance, options schema
\* (TLS versions and cipher names among it), scheme, payload, and the call
\* fails with the error of the first one violated, nothing opened: a non-https
\* target under enforcement is reported as the schema error when the options
\* are also schema-invalid, as the scheme error when only the payload is
\* also wrong.
C13_FirstViolationReported ==
  /\ C13_FirstViolation # "" =>
       /\ NothingOpened
       /\ pc \notin {"dispatch", "await"}
       /\ pc = "done" => promise = Rejected(C13_FirstViolation)
  /\ C13_FirstViolation = "" =>
       (pc = "done" => promise.reason \in {InvalidProtocol, InvalidArgType})

C13_Witness ==
  /\ Url.isURL
  /\ SchemeViolation(Spread(DefaultOptions, Options), Url)
  /\ ~SchemaAccepts(Options)
  /\ pc = "done"
  /\ promise = Rejected(SchemaError)

C14_Rank(version) == IF version = "TLSv1.2" THEN 2 ELSE 3

\* The TLS version a call resolves to: the caller's when given, else the
\* default.
C14_Resolved(field) ==
  IF HasKey(CallerTLS, field) THEN CallerTLS[field] ELSE DefaultTLS[field]

\* C14: every call that reaches a dispatcher has a minimum TLS version that
\* is not above its maximum: minimum TLSv1.3 with maximum TLSv1.2 is rejected
\* before dispatch.
C14_MinNotAboveMax ==
  handshake # <<>> =>
    C14_Rank(C14_Resolved("MinTLSVersion")) <= C14_Rank(C14_Resolved("MaxTLSVersion"))

C15_Delivered ==
  /\ promise.state = "fulfilled" <=> envelope # <<>>
  /\ promise.state = "fulfilled" =>
       /\ stream = "ended"
       /\ <<envelope[1].Body>> = DecodeBody(ExpectedAs, C9_Flatten(delivered))

C15_Kept ==
  promise.state # "pending" => (promise' = promise /\ envelope' = envelope)

C16_TransportDone ==
  \/ stream \in {"ended", "errored", "aborted"}
  \/ session = "errored"

\* C16: a call that passed validation settles: once the transport has
\* delivered the end of the stream or an error, the promise is fulfilled or
\* rejected - also when the JSON body does not parse and when the failure
\* comes after the response headers.
C16_SettlesOnceTransportDone ==
  C16_TransportDone => promise.state # "pending"

C17_UpperCase == { "A", "M", "U", "X" }

C17_Method == IF HasKey(Options, "HttpMethod") THEN Options.HttpMethod ELSE "GET"

\* C17: in HTTPS2Request, whatever header map the caller gives (names that
\* differ only in case and names that begin with ':' included), the request
\* carries :method, :path, :scheme and :authority as synthesized from the
\* method and the target, and every header name it carries is lowercase.
C17_PseudoHeadersSynthesized ==
  (entry = "HTTPS2Request" /\ sentHeaders # <<>>) =>
    LET Headers == sentHeaders[1]
    IN /\ Headers[MethodName] = C17_Method
       /\ Headers[PathName] = Url.pathname \o Url.search
       /\ Headers[SchemeName] = "https"
       /\ Headers[AuthorityName] = Url.host
       /\ \A Key \in DOMAIN Headers :
            \A i \in 1..Len(Key) : Key[i] \notin C17_UpperCase

\* C18: in HTTPS2Request the delivered StatusCode is the number the :status
\* header reported (0 when none was), the delivered headers are the reported
\* ones without any name that begins with ':', and a stream that ends with no
\* 'response' event delivers StatusCode 0 and an empty header map.
C18_StatusAndHeaders ==
  (entry = "HTTPS2Request" /\ envelope # <<>>) =>
    LET Response == envelope[1]
    IN /\ \A Key \in DOMAIN Response.Headers : Key # <<>> /\ Key[1] # ":"
       /\ IF received = <<>>
          THEN Response.StatusCode = 0 /\ Response.Headers = EmptyObj
          ELSE LET Headers == received[1]
               IN /\ Response.StatusCode =
                       (IF StatusName \in DOMAIN Headers THEN Headers[StatusName] ELSE 0)
                  /\ DOMAIN Response.Headers = { Key \in DOMAIN Headers : Key[1] # ":" }
                  /\ \A Key \in DOMAIN Response.Headers :
                       Response.Headers[Key] = Headers[Key]

C18_Witness ==
  /\ entry = "HTTPS2Request"
  /\ envelope # <<>>
  /\ received # <<>>
  /\ StatusName \in DOMAIN received[1]
  /\ envelope[1].StatusCode = 200
  /\ DOMAIN envelope[1].Headers = { ContentType }

\* C20: on both entry points a dispatched request has its payload written
\* exactly once when there is one, nothing written when there is none, and
\* end() called exactly once, after the write.
C20_PayloadWrittenOnceThenEnd ==
  opened > 0 =>
    /\ written = (IF HasKey(Options, "Payload") THEN <<Options.Payload>> ELSE <<>>)
    /\ endCalls = 1

\* C19: two calls in flight at once, on the same or on different entry
\* points, under every interleaving of their events: the response a call
\* delivers is made of its own chunks, in their order, and of its own status
\* and headers; its promise is fulfilled only by the end of its own stream and
\* rejected only by an error of its own, with that error; and it creates one
\* request or session, its own, and issues its stream there.
C19_Isolated ==
  \A c \in Calls :
    /\ promise[c].state = "fulfilled" <=> envelope[c] # <<>>
    /\ envelope[c] # <<>> =>
         /\ stream[c].state = "ended"
         /\ <<envelope[c][1].Body>> = DecodeBody(ExpectedAs[c], C9_Flatten(delivered[c]))
         /\ IF received[c] = <<>>
            THEN envelope[c][1].StatusCode = 0 /\ envelope[c][1].Headers = EmptyObj
            ELSE /\ envelope[c][1].StatusCode =
                      (IF StatusName \in DOMAIN received[c][1]
                       THEN received[c][1][StatusName] ELSE 0)
                 /\ DOMAIN envelope[c][1].Headers = DOMAIN received[c][1] \ { StatusName }
    /\ promise[c].state = "rejected" =>
         (failure[c] # "none" /\ promise[c].reason = cause[c])
    /\ stream[c].state # "none" => (stream[c].on = c /\ opened[c] = 1)
    /\ (entry[c] = "HTTPSRequest" /\ stream[c].state # "none") => session[c] = "none"
    /\ (entry[c] = "HTTPS2Request" /\ stream[c].state # "none") => session[c] # "none"

C19_Witness ==
  /\ entry[1] = "HTTPS2Request" /\ entry[2] = "HTTPS2Request"
  /\ promise[1].state = "rejected"
  /\ envelope[2] # <<>>
  /\ Len(delivered[1]) = 1
  /\ Len(delivered[2]) = 2
  /\ delivered[1][1] # delivered[2][1]
  /\ envelope[2][1].Body.bytes = C9_Flatten(delivered[2])
  /\ envelope[2][1].StatusCode = 200

====
